---- MODULE Spec2Model ----
(***************************************************************************)
(* License-key health tracking and rotation of the Byapi client            *)
(* (byapi_config.py: LicenseKeyHealth, KeyRotationManager).                *)
(*                                                                         *)
(* One KeyRotationManager instance is modelled.  Its state is the dict     *)
(* `keys` of health records, the order list `_key_list` and the cursor     *)
(* `current_index`.  The callers' operations are get_next_key,             *)
(* mark_key_failure and mark_key_success; each is one action.              *)
(***************************************************************************)
EXTENDS Integers, Sequences, FiniteSets, TLC

\* ------------------------------------------------------------------ bounds

\* Upper bound on the number of mark_key_failure events recorded on pool keys
\* in one run of the model (the counters of the program are unbounded).
MaxFailures == 15

\* Longest license_keys list given to the constructor with blank, padded or
\* repeated entries.
MaxRawKeys == 3

\* Largest attempt number for which the backoff formula is evaluated.
MaxAttempt == 6

\* Largest configured max_retries (BYAPI_MAX_RETRIES) the model draws.
MaxRetries == 3

\* Upper bound on the number of _make_request calls in one run of the model.
MaxCalls == 4

\* Sequential _make_request calls of a client one of whose keys is rejected.
MaxFailoverCalls == 18

\* Manager calls each of the two threads makes.
MaxThreadCalls == 2

\* ---------------------------------------------------------------- inputs

None == "None"

\* The credential lists the manager is constructed from (here without
\* padding, blanks or repeats); the empty list builds an empty pool.
LicenseKeyLists ==
    { <<>>, <<"k1">>, <<"k1", "k2">>, <<"k1", "k2", "k3">> }

\* A key that is in no pool (callers may pass one to mark_key_failure/success).
UnknownKey == "kx"

\* Failure reasons passed by callers, and the readings of datetime.now().
Reasons == {"HTTP 503"}
Timestamps == {"t1"}

\* ------------------------------------------------- program constants

\* byapi_config.py:52  `if self.total_failures >= 10`
TotalFailureLimit == 10
\* byapi_config.py:58  `elif self.consecutive_failures >= 5`
ConsecutiveFailureLimit == 5

\* ------------------------------------------------------------------ state

VARIABLES
    keys,           \* KeyRotationManager.keys: key string -> LicenseKeyHealth
    key_list,       \* KeyRotationManager._key_list: keys in configuration order
    current_index,  \* KeyRotationManager.current_index
    last_call,      \* the most recent call on the manager and what it returned
    run,            \* results of the get_next_key calls since the last health event
    failure_events, \* per key: number of mark_key_failure calls made on it
    interrupted,    \* per key: a mark_key_success call has been made on it
    since_success,  \* per key: mark_key_failure calls since the last
                    \* mark_key_success call made while the key was not invalid
    config,         \* the ByapiConfig settings (None for a stand-alone manager)
    request,        \* the locals of the current or last _make_request call
    observed,       \* what that call did: HTTP attempts, sleeps, health events
    calls_started,  \* number of _make_request calls started
    snapshot,       \* the list the last get_health_status call returned
    threads,        \* per thread: the manager call it is in the middle of
    constructed_from \* the license_keys argument the manager was built from

\* The state of the KeyRotationManager and the record of the calls made on it.
manager_vars ==
    <<keys, key_list, current_index, last_call, run, failure_events, interrupted,
      since_success>>

\* The state of the request layer (BaseApiHandler and its ByapiConfig).
handler_vars == <<config, request, observed, calls_started>>

\* What the callers of the manager hold: a returned health list, the
\* position of each thread inside a mark_key_failure / mark_key_success call,
\* and the list the constructor was given.
caller_vars == <<snapshot, threads, constructed_from>>

vars == <<manager_vars, handler_vars, caller_vars>>

\* ------------------------------------------------------ LicenseKeyHealth

\* The dataclass defaults of a new record.
NewHealth(key) ==
    [ key                   |-> key,
      consecutive_failures  |-> 0,
      total_failures        |-> 0,
      status                |-> "healthy",
      last_failed_timestamp |-> None,
      last_failed_reason    |-> None ]

\* mark_failure with the total threshold tested by `>` instead of `>=`.
mark_failure_total_gt(h, reason, now) ==
    LET counted == [ h EXCEPT !.consecutive_failures = @ + 1,
                              !.total_failures       = @ + 1,
                              !.last_failed_timestamp = now,
                              !.last_failed_reason    = reason ]
    IN  IF counted.total_failures > TotalFailureLimit
        THEN [ counted EXCEPT !.status = "invalid" ]
        ELSE IF counted.consecutive_failures >= ConsecutiveFailureLimit
             THEN [ counted EXCEPT !.status = "faulty" ]
             ELSE counted

\* mark_failure with the invalid threshold tested on consecutive_failures.
mark_failure_consecutive_only(h, reason, now) ==
    LET counted == [ h EXCEPT !.consecutive_failures = @ + 1,
                              !.total_failures       = @ + 1,
                              !.last_failed_timestamp = now,
                              !.last_failed_reason    = reason ]
    IN  IF counted.consecutive_failures >= TotalFailureLimit
        THEN [ counted EXCEPT !.status = "invalid" ]
        ELSE IF counted.consecutive_failures >= ConsecutiveFailureLimit
             THEN [ counted EXCEPT !.status = "faulty" ]
             ELSE counted

\* mark_failure turning a key faulty one failure later.
mark_failure_faulty_at_six(h, reason, now) ==
    LET counted == [ h EXCEPT !.consecutive_failures = @ + 1,
                              !.total_failures       = @ + 1,
                              !.last_failed_timestamp = now,
                              !.last_failed_reason    = reason ]
    IN  IF counted.total_failures >= TotalFailureLimit
        THEN [ counted EXCEPT !.status = "invalid" ]
        ELSE IF counted.consecutive_failures >= ConsecutiveFailureLimit + 1
             THEN [ counted EXCEPT !.status = "faulty" ]
             ELSE counted

\* LicenseKeyHealth.mark_failure: the record after the call (the returned
\* value is its status field).
mark_failure(h, reason, now) ==
    LET counted == [ h EXCEPT !.consecutive_failures = @ + 1,
                              !.total_failures       = @ + 1,
                              !.last_failed_timestamp = now,
                              !.last_failed_reason    = reason ]
    IN  IF counted.total_failures >= TotalFailureLimit
        THEN [ counted EXCEPT !.status = "invalid" ]
        ELSE IF counted.consecutive_failures >= ConsecutiveFailureLimit
             THEN [ counted EXCEPT !.status = "faulty" ]
             ELSE counted

\* mark_success without the early return for invalid keys.
mark_success_always(h) ==
    [ h EXCEPT !.consecutive_failures = 0, !.status = "healthy" ]

\* mark_success that also resets total_failures.
mark_success_resets_total(h) ==
    IF h.status = "invalid"
    THEN h
    ELSE [ h EXCEPT !.consecutive_failures = 0, !.total_failures = 0,
                    !.status = "healthy" ]

\* mark_success that resets the counter but not the status.
mark_success_keeps_status(h) ==
    IF h.status = "invalid"
    THEN h
    ELSE [ h EXCEPT !.consecutive_failures = 0 ]

\* mark_success that forgives one failure instead of the whole streak.
mark_success_decrements(h) ==
    IF h.status = "invalid"
    THEN h
    ELSE [ h EXCEPT !.consecutive_failures = IF @ > 0 THEN @ - 1 ELSE 0,
                    !.status = "healthy" ]

\* LicenseKeyHealth.mark_success: the record after the call.
mark_success(h) ==
    IF h.status = "invalid"
    THEN h
    ELSE [ h EXCEPT !.consecutive_failures = 0, !.status = "healthy" ]

is_usable(h) == h.status \in {"healthy", "faulty"}

is_permanently_disabled(h) == h.status = "invalid"

\* ---------------------------------------------------- KeyRotationManager

\* The list comprehension `[k for k in self._key_list if self.keys[k].status == s]`.
KeysWithStatus(ks, kl, s) ==
    SelectSeq(kl, LAMBDA k : ks[k].status = s)

\* Selection that ignores the cursor and always takes the first of the tier.
PickFromTier_first(tier, idx) == tier[1]

\* `tier[self.current_index % len(tier)]` (Python lists are 0-based).
PickFromTier(tier, idx) == tier[(idx % Len(tier)) + 1]

\* The cursor advanced by two slots at a time.
AdvanceIndex_by_two(idx, n) == (idx + 2) % n

\* `self.current_index = (self.current_index + 1) % len(self._key_list)`
AdvanceIndex(idx, n) == (idx + 1) % n

\* What a call that raises ByapiError leaves as its result.
ByapiError == "ByapiError"

\* get_next_key that tries the faulty tier before the healthy one.
get_next_key_faulty_first(ks, kl, idx) ==
    IF kl = <<>>
    THEN [ ret |-> ByapiError, current_index |-> idx ]
    ELSE LET healthy_keys == KeysWithStatus(ks, kl, "healthy")
             faulty_keys  == KeysWithStatus(ks, kl, "faulty")
             invalid_keys == KeysWithStatus(ks, kl, "invalid")
         IN  IF faulty_keys # <<>>
             THEN [ ret           |-> PickFromTier(faulty_keys, idx),
                    current_index |-> AdvanceIndex(idx, Len(kl)) ]
             ELSE IF healthy_keys # <<>>
             THEN [ ret           |-> PickFromTier(healthy_keys, idx),
                    current_index |-> AdvanceIndex(idx, Len(kl)) ]
             ELSE IF invalid_keys # <<>>
             THEN [ ret           |-> PickFromTier(invalid_keys, idx),
                    current_index |-> AdvanceIndex(idx, Len(kl)) ]
             ELSE [ ret |-> ByapiError, current_index |-> idx ]

\* get_next_key without the last-resort invalid tier: it raises when no key
\* is usable.
get_next_key_usable_only(ks, kl, idx) ==
    IF kl = <<>>
    THEN [ ret |-> ByapiError, current_index |-> idx ]
    ELSE LET healthy_keys == KeysWithStatus(ks, kl, "healthy")
             faulty_keys  == KeysWithStatus(ks, kl, "faulty")
         IN  IF healthy_keys # <<>>
             THEN [ ret           |-> PickFromTier(healthy_keys, idx),
                    current_index |-> AdvanceIndex(idx, Len(kl)) ]
             ELSE IF faulty_keys # <<>>
             THEN [ ret           |-> PickFromTier(faulty_keys, idx),
                    current_index |-> AdvanceIndex(idx, Len(kl)) ]
             ELSE [ ret |-> ByapiError, current_index |-> idx ]

\* get_next_key that returns None on an empty pool instead of raising.
get_next_key_none_on_empty(ks, kl, idx) ==
    IF kl = <<>>
    THEN [ ret |-> None, current_index |-> idx ]
    ELSE LET healthy_keys == KeysWithStatus(ks, kl, "healthy")
             faulty_keys  == KeysWithStatus(ks, kl, "faulty")
             invalid_keys == KeysWithStatus(ks, kl, "invalid")
         IN  IF healthy_keys # <<>>
             THEN [ ret           |-> PickFromTier(healthy_keys, idx),
                    current_index |-> AdvanceIndex(idx, Len(kl)) ]
             ELSE IF faulty_keys # <<>>
             THEN [ ret           |-> PickFromTier(faulty_keys, idx),
                    current_index |-> AdvanceIndex(idx, Len(kl)) ]
             ELSE [ ret           |-> PickFromTier(invalid_keys, idx),
                    current_index |-> AdvanceIndex(idx, Len(kl)) ]

\* KeyRotationManager.get_next_key: the returned key (or the raised error)
\* and the cursor after the call.
get_next_key(ks, kl, idx) ==
    IF kl = <<>>
    THEN [ ret |-> ByapiError, current_index |-> idx ]
    ELSE LET healthy_keys == KeysWithStatus(ks, kl, "healthy")
             faulty_keys  == KeysWithStatus(ks, kl, "faulty")
             invalid_keys == KeysWithStatus(ks, kl, "invalid")
         IN  IF healthy_keys # <<>>
             THEN [ ret           |-> PickFromTier(healthy_keys, idx),
                    current_index |-> AdvanceIndex(idx, Len(kl)) ]
             ELSE IF faulty_keys # <<>>
             THEN [ ret           |-> PickFromTier(faulty_keys, idx),
                    current_index |-> AdvanceIndex(idx, Len(kl)) ]
             ELSE IF invalid_keys # <<>>
             THEN [ ret           |-> PickFromTier(invalid_keys, idx),
                    current_index |-> AdvanceIndex(idx, Len(kl)) ]
             ELSE [ ret |-> ByapiError, current_index |-> idx ]

\* mark_key_failure that moves the cursor on for a key it does not know.
mark_key_failure_unknown_advances(ks, idx, key, reason, now) ==
    IF key \notin DOMAIN ks
    THEN [ keys          |-> ks,
           current_index |-> IF DOMAIN ks = {} THEN idx
                             ELSE AdvanceIndex(idx, Cardinality(DOMAIN ks)),
           ret           |-> "unknown" ]
    ELSE LET health     == mark_failure(ks[key], reason, now)
             new_status == health.status
         IN  [ keys          |-> [ ks EXCEPT ![key] = health ],
               current_index |-> IF new_status = "faulty"
                                 THEN AdvanceIndex(idx, Cardinality(DOMAIN ks))
                                 ELSE idx,
               ret           |-> new_status ]

\* KeyRotationManager.mark_key_failure: the dict, the cursor and the returned
\* status after the call.
mark_key_failure(ks, idx, key, reason, now) ==
    IF key \notin DOMAIN ks
    THEN [ keys |-> ks, current_index |-> idx, ret |-> "unknown" ]
    ELSE LET health     == mark_failure(ks[key], reason, now)
             new_status == health.status
         IN  [ keys          |-> [ ks EXCEPT ![key] = health ],
               current_index |-> IF new_status = "faulty"
                                 THEN AdvanceIndex(idx, Cardinality(DOMAIN ks))
                                 ELSE idx,
               ret           |-> new_status ]

\* KeyRotationManager.mark_key_success: the dict after the call.
mark_key_success(ks, key) ==
    IF key \notin DOMAIN ks
    THEN ks
    ELSE [ ks EXCEPT ![key] = mark_success(ks[key]) ]

\* ----------------------------------------------------------- bookkeeping

RECURSIVE SumOver(_, _)
SumOver(f, S) ==
    IF S = {} THEN 0
    ELSE LET k == CHOOSE x \in S : TRUE IN f[k] + SumOver(f, S \ {k})

RecordedFailures == SumOver(failure_events, DOMAIN failure_events)

\* The last n results of consecutive get_next_key calls (n is the pool size).
Remember(r, key, n) ==
    LET all == Append(r, key)
    IN  IF Len(all) > n THEN Tail(all) ELSE all

Range(seq) == { seq[i] : i \in 1..Len(seq) }

\* ---------------------------------------------------- BaseApiHandler

\* The locals of _make_request before any call: no key fetched, no attempt.
IdleRequest ==
    [ pc          |-> "idle",      \* idle | loop | returned | raised
      license_key |-> None,
      attempt     |-> 0,
      last_error  |-> None,
      raised      |-> None,        \* the exception class the call ended with
      status_code |-> 0,           \* RequestResult.status_code of a returned call
      license_key_used |-> None ]  \* RequestResult.license_key_used

\* ByapiConfig: the settings _make_request and the key manager are built
\* with (delays in milliseconds).
Config(retries, base, cap, consecutive, total) ==
    [ max_retries                   |-> retries,
      retry_base_delay              |-> base,
      retry_max_delay               |-> cap,
      consecutive_failure_threshold |-> consecutive,
      total_failure_threshold       |-> total ]

\* The settings drawn: the defaults (0.1 s, 30 s, 5, 10) with every
\* max_retries up to MaxRetries, and one environment with max_retries 2
\* that overrides the delay cap and both thresholds.
Configs ==
    { Config(r, 100, 30000, 5, 10) : r \in 0..MaxRetries }
        \cup { Config(2, 100, 150, 3, 6) }

\* What session.get can do: answer with a status code and a body that is
\* JSON or not, or raise.
Answer(kind, status_code, json) ==
    [ kind |-> kind, status_code |-> status_code, json |-> json ]

HttpAnswers ==
    { Answer("response", 200, TRUE), Answer("response", 200, FALSE) }
        \cup { Answer("response", c, FALSE) : c \in {401, 403, 404, 429, 503} }
        \cup { Answer(e, 0, FALSE) : e \in {"Timeout", "ConnectionError", "TooManyRedirects"} }

\* No GET has been issued yet.
NoAnswer == Answer("none", 0, FALSE)

\* What one _make_request call has done so far.
NothingObserved ==
    [ get_calls    |-> 0,          \* get_license_key calls made by the call
      attempts     |-> 0,          \* HTTP GETs issued by the call
      keys_used    |-> {},         \* the keys in the URLs of those GETs
      answers      |-> {},         \* the answers those GETs got
      last_answer  |-> NoAnswer,   \* the answer of the latest GET
      sleeps       |-> <<>>,       \* pre-jitter delay (ms) of each _wait_exponential
      health       |-> <<>>,       \* mark_key_failure / mark_key_success calls, in order
      total_before |-> 0 ]         \* total_failures of the fetched key at the fetch

\* The if/elif chain with 429 handled like any other 4xx.
StatusBranch_429_client(status_code) ==
    IF status_code = 401 \/ status_code = 403 THEN "auth"
    ELSE IF status_code >= 400 THEN "client_error"
    ELSE IF status_code >= 500 THEN "server_error"
    ELSE "success"

\* The if/elif chain with only 401 treated as an authentication failure.
StatusBranch_401_only(status_code) ==
    IF status_code = 429 THEN "rate_limit"
    ELSE IF status_code = 401 THEN "auth"
    ELSE IF status_code >= 400 THEN "client_error"
    ELSE IF status_code >= 500 THEN "server_error"
    ELSE "success"

\* The branch of the if/elif chain on response.status_code, tested in the
\* order of the code.
StatusBranch(status_code) ==
    IF status_code = 429 THEN "rate_limit"
    ELSE IF status_code = 401 \/ status_code = 403 THEN "auth"
    ELSE IF status_code >= 400 THEN "client_error"
    ELSE IF status_code >= 500 THEN "server_error"
    ELSE "success"

\* The reason strings passed to mark_key_failure.
AuthReason(status_code) ==
    IF status_code = 401 THEN "HTTP 401: Authentication failed"
    ELSE "HTTP 403: Authentication failed"

ClientReason(status_code) ==
    IF status_code = 404 THEN "HTTP 404: Client error"
    ELSE IF status_code = 503 THEN "HTTP 503: Client error"
    ELSE "HTTP 4xx: Client error"

NetworkReason(kind) ==
    IF kind = "Timeout" THEN "Network error: Timeout"
    ELSE "Network error: ConnectionError"

RECURSIVE Pow2(_)
Pow2(n) == IF n <= 0 THEN 1 ELSE 2 * Pow2(n - 1)

Min(a, b) == IF a <= b THEN a ELSE b

\* _wait_exponential with the exponent taken as attempt instead of attempt - 1.
wait_exponential_zero_based(attempt, cfg) ==
    Min(cfg.retry_base_delay * Pow2(attempt), cfg.retry_max_delay)

\* _wait_exponential: the delay before jitter, in milliseconds.  (The jitter
\* of +-20% only changes how long the sleep lasts.)
wait_exponential(attempt, cfg) ==
    Min(cfg.retry_base_delay * Pow2(attempt - 1), cfg.retry_max_delay)

\* The key of an attempt if the key were fetched again for every attempt.
AttemptKey_refetched(req) == get_next_key(keys, key_list, current_index).ret

\* The key in the URL of an HTTP attempt: the URL is built once, before the
\* loop, from the key fetched at the start of the call.
AttemptKey(req) == req.license_key

\* The loop test written `attempt <= max_retries`.
loop_exit_one_more(req, cfg) ==
    IF req.attempt <= cfg.max_retries
    THEN req
    ELSE [ req EXCEPT
             !.pc = "raised",
             !.raised = IF req.last_error = None THEN ByapiError
                        ELSE IF req.last_error = "rate_limit" THEN "RateLimitError"
                        ELSE "NetworkError" ]

\* What follows the `while attempt < max_retries` test: the loop goes on, or
\* the call raises according to last_error.
loop_exit(req, cfg) ==
    IF req.attempt < cfg.max_retries
    THEN req
    ELSE [ req EXCEPT
             !.pc = "raised",
             !.raised = IF req.last_error = None THEN ByapiError
                        ELSE IF req.last_error = "rate_limit" THEN "RateLimitError"
                        ELSE "NetworkError" ]

\* A retryable outcome that records nothing on the key.
retry_unmarked(req, cfg, error_type, mark, reason) ==
    LET counted == [ req EXCEPT !.last_error = error_type, !.attempt = @ + 1 ]
    IN  [ request |-> loop_exit(counted, cfg),
          mark    |-> None,
          reason  |-> None,
          slept   |-> counted.attempt < cfg.max_retries,
          delay   |-> wait_exponential(counted.attempt, cfg) ]

\* A retryable outcome: last_error is set, attempt is counted, the call
\* sleeps if an attempt remains, and the loop test follows.
retry(req, cfg, error_type, mark, reason) ==
    LET counted == [ req EXCEPT !.last_error = error_type, !.attempt = @ + 1 ]
    IN  [ request |-> loop_exit(counted, cfg),
          mark    |-> mark,
          reason  |-> reason,
          slept   |-> counted.attempt < cfg.max_retries,
          delay   |-> wait_exponential(counted.attempt, cfg) ]

\* Python's s[:n].
Prefix(s, n) == SubSeq(s, 1, Min(n, Len(s)))

\* RequestResult.license_key_used: license_key[:8] + "..."
key_used(license_key) == Prefix(license_key, 8) \o "..."

\* A terminal outcome: the call raises (or returns) on this attempt.
finish(req, pc, raised, status_code, mark, reason) ==
    [ request |-> [ req EXCEPT !.pc = pc, !.raised = raised,
                               !.status_code = status_code,
                               !.license_key_used =
                                   IF pc = "returned"
                                   THEN key_used(req.license_key) ELSE None ],
      mark    |-> mark,
      reason  |-> reason,
      slept   |-> FALSE,
      delay   |-> 0 ]

\* response.json() raising ValueError, with a failure recorded on the key.
parse_failure_marked(req) ==
    finish(req, "raised", "DataError", 0, "failure", "Failed to parse")

\* response.json() raising ValueError: DataError, no health event.
parse_failure(req) ==
    finish(req, "raised", "DataError", 0, None, None)

\* The body of the retry loop for one answer of session.get.
one_attempt(req, cfg, answer) ==
    IF answer.kind \in {"Timeout", "ConnectionError"}
    THEN retry(req, cfg, "network_error", "failure", NetworkReason(answer.kind))
    ELSE IF answer.kind # "response"
    THEN finish(req, "raised", ByapiError, 0, None, None)
    ELSE LET branch == StatusBranch(answer.status_code) IN
         IF branch = "rate_limit"
         THEN retry(req, cfg, "rate_limit", None, None)
         ELSE IF branch = "auth"
         THEN finish(req, "raised", "AuthenticationError", 0,
                     "failure", AuthReason(answer.status_code))
         ELSE IF branch = "client_error"
         THEN finish(req, "raised", "DataError", 0,
                     "failure", ClientReason(answer.status_code))
         ELSE IF branch = "server_error"
         THEN retry(req, cfg, "server_error", None, None)
         ELSE IF ~answer.json
         THEN parse_failure(req)
         ELSE finish(req, "returned", None, answer.status_code, "success", None)

\* ------------------------------------------------------------------- Init

\* The characters str.strip() removes (space and tab drawn).
Whitespace == {" ", "\t"}

\* str.strip(): leading, then trailing whitespace is removed.
RECURSIVE lstrip(_)
lstrip(s) ==
    IF s # "" /\ SubSeq(s, 1, 1) \in Whitespace
    THEN lstrip(SubSeq(s, 2, Len(s))) ELSE s

RECURSIVE rstrip(_)
rstrip(s) ==
    IF s # "" /\ SubSeq(s, Len(s), Len(s)) \in Whitespace
    THEN rstrip(SubSeq(s, 1, Len(s) - 1)) ELSE s

strip(s) == rstrip(lstrip(s))

\* The dict comprehension of __init__, entry by entry: an entry that is
\* empty after strip() is skipped, a new key takes the next position, and a
\* key already in the dict keeps the position it has.
RECURSIVE insert_all(_, _)
insert_all(order, license_keys) ==
    IF license_keys = <<>> THEN order
    ELSE LET key == strip(Head(license_keys))
         IN  insert_all(IF key = "" \/ key \in Range(order) THEN order
                        ELSE Append(order, key),
                        Tail(license_keys))

\* The stripped non-empty entries in input order, repeats included.
pool_order_keeps_duplicates(license_keys) ==
    SelectSeq([ i \in 1..Len(license_keys) |-> strip(license_keys[i]) ],
              LAMBDA key : key # "")

\* self._key_list = list(self.keys.keys())
pool_order(license_keys) == insert_all(<<>>, license_keys)

\* KeyRotationManager.__init__
NewManager(license_keys) ==
    /\ constructed_from = license_keys
    /\ key_list = pool_order(license_keys)
    /\ keys = [ k \in Range(pool_order(license_keys)) |-> NewHealth(k) ]
    /\ current_index = 0
    /\ last_call = [ op |-> "__init__", key |-> None, ret |-> None ]
    /\ run = <<>>
    /\ failure_events = [ k \in Range(pool_order(license_keys)) |-> 0 ]
    /\ interrupted = [ k \in Range(pool_order(license_keys)) |-> FALSE ]
    /\ since_success = [ k \in Range(pool_order(license_keys)) |-> 0 ]

\* No request has been made.
NoRequest ==
    /\ request = IdleRequest
    /\ observed = NothingObserved
    /\ calls_started = 0

\* No health list has been asked for.
NoSnapshot == [ mask_keys |-> FALSE, items |-> <<>>, taken |-> <<>> ]

\* No caller holds a health list and no thread is inside a manager call.
NoCallers ==
    /\ snapshot = NoSnapshot
    /\ threads = <<>>

\* A stand-alone KeyRotationManager, built from any credential list.
Init ==
    \E license_keys \in LicenseKeyLists :
        /\ NewManager(license_keys)
        /\ config = None
        /\ NoRequest
        /\ NoCallers

\* ---------------------------------------------------------------- actions

GetNextKey ==
    LET out == get_next_key(keys, key_list, current_index)
    IN  /\ current_index' = out.current_index
        /\ last_call' = [ op |-> "get_next_key", key |-> None, ret |-> out.ret ]
        /\ run' = IF out.ret = ByapiError THEN <<>>
                  ELSE Remember(run, out.ret, Len(key_list))
        /\ UNCHANGED <<keys, key_list, failure_events, interrupted, since_success>>

MarkKeyFailure(key, reason, now) ==
    LET out == mark_key_failure(keys, current_index, key, reason, now)
    IN  /\ key \in DOMAIN keys => RecordedFailures < MaxFailures
        /\ keys' = out.keys
        /\ current_index' = out.current_index
        /\ last_call' = [ op |-> "mark_key_failure", key |-> key, ret |-> out.ret ]
        /\ run' = <<>>
        /\ failure_events' = IF key \in DOMAIN keys
                             THEN [ failure_events EXCEPT ![key] = @ + 1 ]
                             ELSE failure_events
        /\ since_success' = IF key \in DOMAIN keys
                            THEN [ since_success EXCEPT ![key] = @ + 1 ]
                            ELSE since_success
        /\ UNCHANGED <<key_list, interrupted>>

MarkKeySuccess(key) ==
    /\ keys' = mark_key_success(keys, key)
    /\ last_call' = [ op |-> "mark_key_success", key |-> key, ret |-> None ]
    /\ run' = <<>>
    /\ interrupted' = IF key \in DOMAIN keys
                      THEN [ interrupted EXCEPT ![key] = TRUE ]
                      ELSE interrupted
    /\ since_success' = IF key \in DOMAIN keys /\ keys[key].status # "invalid"
                        THEN [ since_success EXCEPT ![key] = 0 ]
                        ELSE since_success
    /\ UNCHANGED <<key_list, current_index, failure_events>>

CallerKeys == DOMAIN keys \cup {UnknownKey}

Next ==
    \/ GetNextKey /\ UNCHANGED <<handler_vars, caller_vars>>
    \/ \E key \in CallerKeys, reason \in Reasons, now \in Timestamps :
           MarkKeyFailure(key, reason, now)
               /\ UNCHANGED <<handler_vars, caller_vars>>
    \/ \E key \in CallerKeys :
           MarkKeySuccess(key) /\ UNCHANGED <<handler_vars, caller_vars>>

Spec == Init /\ [][Next]_vars

\* ------------------------------------------- requests through the handler

\* ByapiConfig.__init__: the settings are read, an empty credential list is
\* rejected (ValueError), and the key manager is built.
InitHandler ==
    \E license_keys \in LicenseKeyLists, settings \in Configs :
        /\ license_keys # <<>>
        /\ Len(license_keys) <= 2
        /\ config = settings
        /\ NewManager(license_keys)
        /\ NoRequest
        /\ NoCallers

\* _make_request up to the first HTTP attempt: the key is fetched once and
\* the loop is entered (or skipped when max_retries allows no attempt).
BeginRequestWithin(limit) ==
    LET fetched == get_next_key(keys, key_list, current_index)
    IN  /\ request.pc # "loop"
        /\ calls_started < limit
        /\ calls_started' = calls_started + 1
        /\ GetNextKey
        /\ request' = IF fetched.ret = ByapiError
                      THEN [ IdleRequest EXCEPT !.pc = "raised", !.raised = ByapiError ]
                      ELSE loop_exit([ IdleRequest EXCEPT !.pc = "loop",
                                                         !.license_key = fetched.ret ],
                                     config)
        /\ observed' = [ NothingObserved EXCEPT
                           !.get_calls = 1,
                           !.total_before = IF fetched.ret = ByapiError THEN 0
                                            ELSE keys[fetched.ret].total_failures ]
        /\ UNCHANGED config

BeginRequest == BeginRequestWithin(MaxCalls)

\* One pass of the retry loop: the HTTP GET, the classification of its
\* answer, the health event it records, the backoff sleep, and - when no
\* attempt remains - the raise that follows the loop.
Attempt(answer, now) ==
    LET step == one_attempt(request, config, answer)
    IN  /\ request.pc = "loop"
        /\ request' = step.request
        /\ observed' =
              [ observed EXCEPT
                  !.attempts    = @ + 1,
                  !.keys_used   = @ \cup {AttemptKey(request)},
                  !.answers     = @ \cup {answer},
                  !.last_answer = answer,
                  !.sleeps = IF step.slept THEN Append(@, step.delay) ELSE @,
                  !.health = IF step.mark = None THEN @ ELSE Append(@, step.mark) ]
        /\ CASE step.mark = "failure" ->
                    MarkKeyFailure(request.license_key, step.reason, now)
             [] step.mark = "success" ->
                    MarkKeySuccess(request.license_key)
             [] OTHER ->
                    UNCHANGED manager_vars
        /\ UNCHANGED <<config, calls_started>>

NextHandler ==
    \/ BeginRequest /\ UNCHANGED caller_vars
    \/ \E answer \in HttpAnswers, now \in Timestamps :
           Attempt(answer, now) /\ UNCHANGED caller_vars

SpecHandler == InitHandler /\ [][NextHandler]_vars

\* session.get is called with timeout=self.config.timeout and time.sleep
\* returns: an attempt that has been started is completed.
AttemptCompletes ==
    \E answer \in HttpAnswers, now \in Timestamps :
        Attempt(answer, now) /\ UNCHANGED caller_vars

\* A client configured with a single key.
InitSingleKey ==
    \E settings \in Configs :
        /\ config = settings
        /\ NewManager(<<"k1">>)
        /\ NoRequest
        /\ NoCallers

SpecCallFair ==
    InitSingleKey /\ [][NextHandler]_vars /\ WF_vars(AttemptCompletes)

\* --------------------------------------------------- health snapshots

\* _mask_key without the placeholder for short keys.
mask_key_prefix_always(key) == Prefix(key, 8) \o "..."

\* LicenseKeyHealth._mask_key
mask_key(key) ==
    IF Len(key) > 8 THEN SubSeq(key, 1, 8) \o "..." ELSE "***"

\* KeyRotationManager.get_health_status: the returned list.  With mask_keys
\* every element is a new LicenseKeyHealth built from the fields of the live
\* one; without it the elements are the live objects of self.keys themselves
\* (`live`), in a new list.  `copy` holds the fields the element was built with.
get_health_status(ks, kl, mask_keys) ==
    [ i \in 1..Len(kl) |->
        IF mask_keys
        THEN [ live |-> FALSE, of |-> kl[i],
               copy |-> [ ks[kl[i]] EXCEPT !.key = mask_key(@) ] ]
        ELSE [ live |-> TRUE, of |-> kl[i], copy |-> ks[kl[i]] ] ]

\* What a caller reads from an element of a returned list.
Value(item) == IF item.live THEN keys[item.of] ELSE item.copy

\* A caller asks for the health list.
GetHealthStatus(mask_keys) ==
    LET items == get_health_status(keys, key_list, mask_keys)
    IN  /\ snapshot' = [ mask_keys |-> mask_keys,
                         items     |-> items,
                         taken     |-> [ i \in 1..Len(items) |-> items[i].copy ] ]
        /\ last_call' = [ op |-> "get_health_status", key |-> None, ret |-> None ]
        /\ UNCHANGED <<keys, key_list, current_index, run, failure_events,
                       interrupted, since_success>>

\* The caller assigns to a field of element i of the list it holds
\* (record.status = "invalid").
ModifyReturned(i) ==
    LET item == snapshot.items[i]
    IN  /\ i \in 1..Len(snapshot.items)
        /\ IF item.live
           THEN /\ keys' = [ keys EXCEPT ![item.of].status = "invalid" ]
                /\ UNCHANGED snapshot
           ELSE /\ snapshot' = [ snapshot EXCEPT !.items[i].copy.status = "invalid" ]
                /\ UNCHANGED keys
        /\ UNCHANGED <<key_list, current_index, last_call, run, failure_events,
                       interrupted, since_success>>

\* Credentials of 3, 8, 9 and 11 characters.
TextKeyLists ==
    { <<"abc">>, <<"abcdefgh", "abcdefghi">>, <<"abcdefghi", "abcdefghijk">> }

\* The answers of a server that accepts or is not reached.
ClientAnswers ==
    { Answer("response", 200, TRUE), Answer("Timeout", 0, FALSE) }

\* A client (ByapiConfig + handler) whose caller also reads the health list.
InitClient ==
    \E license_keys \in TextKeyLists :
        /\ config = Config(2, 100, 30000, 5, 10)
        /\ NewManager(license_keys)
        /\ NoRequest
        /\ NoCallers

NextClient ==
    \/ BeginRequest /\ UNCHANGED caller_vars
    \/ \E answer \in ClientAnswers, now \in Timestamps :
           Attempt(answer, now) /\ UNCHANGED caller_vars
    \/ \E mask_keys \in BOOLEAN :
           GetHealthStatus(mask_keys) /\ UNCHANGED <<handler_vars, threads, constructed_from>>
    \/ \E i \in 1..2 :
           ModifyReturned(i) /\ UNCHANGED <<handler_vars, threads, constructed_from>>

SpecClient == InitClient /\ [][NextClient]_vars

\* ------------------------------------------------------ pool construction

\* Entries a credential list can hold: blank, padded and repeated ones.
RawKeys == {"", " ", "k1", "k1 ", "\tk2", "k2"}

RawKeyLists == UNION { [1..n -> RawKeys] : n \in 0..MaxRawKeys }

\* A manager built from any such list, then asked for keys.
InitPool ==
    \E license_keys \in RawKeyLists :
        /\ NewManager(license_keys)
        /\ config = None
        /\ NoRequest
        /\ NoCallers

NextPool == GetNextKey /\ UNCHANGED <<handler_vars, caller_vars>>

SpecPool == InitPool /\ [][NextPool]_vars

\* ------------------------------------------------------------- backoff

\* Retry settings with the base delay under, between and over the cap.
BackoffConfigs ==
    { Config(r, base, cap, 5, 10) :
          r \in 0..MaxRetries, base \in {50, 100, 200}, cap \in {100, 150, 1000} }

\* The answers that make _make_request sleep and retry.
RetryableAnswers ==
    { Answer("response", 429, FALSE), Answer("Timeout", 0, FALSE) }

\* A client whose server never completes a request.
InitBackoff ==
    \E settings \in BackoffConfigs :
        /\ config = settings
        /\ NewManager(<<"k1">>)
        /\ NoRequest
        /\ NoCallers

NextBackoff ==
    \/ BeginRequest /\ UNCHANGED caller_vars
    \/ \E answer \in RetryableAnswers, now \in Timestamps :
           Attempt(answer, now) /\ UNCHANGED caller_vars

SpecBackoff == InitBackoff /\ [][NextBackoff]_vars

\* ------------------------------------------- one key the server rejects
\* A client makes sequential calls against a server that answers 401 or 403
\* to one key of the pool and a parsable 200 to every other key.

RejectedKey == "k1"

FailoverKeyLists ==
    { <<"k1", "k2">>, <<"k2", "k1">>,
      <<"k1", "k2", "k3">>, <<"k2", "k1", "k3">>, <<"k2", "k3", "k1">> }

\* The client is allowed at least one attempt per call: with none, no key is
\* ever tried, so none is rejected and none succeeds.
FailoverConfigs == { settings \in Configs : settings.max_retries >= 1 }

AnswersTo(license_key) ==
    IF license_key = RejectedKey
    THEN { Answer("response", c, FALSE) : c \in {401, 403} }
    ELSE { Answer("response", 200, TRUE) }

InitFailover ==
    \E license_keys \in FailoverKeyLists, settings \in FailoverConfigs :
        /\ config = settings
        /\ NewManager(license_keys)
        /\ NoRequest
        /\ NoCallers

NextFailover ==
    \/ BeginRequestWithin(MaxFailoverCalls) /\ UNCHANGED caller_vars
    \/ \E answer \in AnswersTo(AttemptKey(request)), now \in Timestamps :
           Attempt(answer, now) /\ UNCHANGED caller_vars

SpecFailover == InitFailover /\ [][NextFailover]_vars

\* --------------------------------------------- two threads, one manager
\* A program records failures and successes of one key from a single thread
\* and then from two threads that share the manager. No lock is taken in
\* mark_key_failure, mark_key_success, mark_failure or mark_success, so the
\* threads interleave at every read and write of the record's fields; a
\* thread keeps the value it has read in `read` until it writes.

ThreadIds == {1, 2}

SharedKey == "k1"

IdleThread == [ pc |-> "idle", calls |-> 0, read |-> None ]

Goto(t, pc, read) ==
    threads' = [ threads EXCEPT ![t] = [ @ EXCEPT !.pc = pc, !.read = read ] ]

At(t, pc) == threads # <<>> /\ threads[t].pc = pc

Health == keys[SharedKey]

SetHealth(h) == keys' = [ keys EXCEPT ![SharedKey] = h ]

thread_ghosts == <<key_list, last_call, run, failure_events, interrupted, since_success>>

\* mark_key_failure, lines 186-191: the key is known, mark_failure is entered.
EnterMarkKeyFailure(t) ==
    /\ At(t, "idle")
    /\ threads[t].calls < MaxThreadCalls
    /\ threads' = [ threads EXCEPT ![t] = [ pc    |-> "read_consecutive",
                                            calls |-> @.calls + 1,
                                            read  |-> None ] ]
    /\ failure_events' = [ failure_events EXCEPT ![SharedKey] = @ + 1 ]
    /\ since_success' = [ since_success EXCEPT ![SharedKey] = @ + 1 ]
    /\ run' = <<>>
    /\ UNCHANGED <<keys, key_list, current_index, last_call, interrupted>>

\* Line 47, `self.consecutive_failures += 1`: the read ...
ReadConsecutive(t) ==
    /\ At(t, "read_consecutive")
    /\ Goto(t, "write_consecutive", Health.consecutive_failures)
    /\ UNCHANGED <<keys, current_index, thread_ghosts>>

\* ... and the write.
WriteConsecutive(t) ==
    /\ At(t, "write_consecutive")
    /\ SetHealth([ Health EXCEPT !.consecutive_failures = threads[t].read + 1 ])
    /\ Goto(t, "read_total", None)
    /\ UNCHANGED <<current_index, thread_ghosts>>

\* Line 48, `self.total_failures += 1`: the read ...
ReadTotal(t) ==
    /\ At(t, "read_total")
    /\ Goto(t, "write_total", Health.total_failures)
    /\ UNCHANGED <<keys, current_index, thread_ghosts>>

\* ... and the write.
WriteTotal(t) ==
    /\ At(t, "write_total")
    /\ SetHealth([ Health EXCEPT !.total_failures = threads[t].read + 1 ])
    /\ Goto(t, "stamp", None)
    /\ UNCHANGED <<current_index, thread_ghosts>>

\* Lines 49-50: the timestamp and the reason.
Stamp(t, reason, now) ==
    /\ At(t, "stamp")
    /\ SetHealth([ Health EXCEPT !.last_failed_timestamp = now,
                                 !.last_failed_reason    = reason ])
    /\ Goto(t, "test_total", None)
    /\ UNCHANGED <<current_index, thread_ghosts>>

\* Line 52, `if self.total_failures >= 10`.
TestTotal(t) ==
    /\ At(t, "test_total")
    /\ Goto(t, IF Health.total_failures >= TotalFailureLimit
               THEN "set_invalid" ELSE "test_consecutive", None)
    /\ UNCHANGED <<keys, current_index, thread_ghosts>>

\* Line 53.
SetInvalid(t) ==
    /\ At(t, "set_invalid")
    /\ SetHealth([ Health EXCEPT !.status = "invalid" ])
    /\ Goto(t, "read_status", None)
    /\ UNCHANGED <<current_index, thread_ghosts>>

\* Line 58, `elif self.consecutive_failures >= 5`.
TestConsecutive(t) ==
    /\ At(t, "test_consecutive")
    /\ Goto(t, IF Health.consecutive_failures >= ConsecutiveFailureLimit
               THEN "set_faulty" ELSE "read_status", None)
    /\ UNCHANGED <<keys, current_index, thread_ghosts>>

\* Line 59.
SetFaulty(t) ==
    /\ At(t, "set_faulty")
    /\ SetHealth([ Health EXCEPT !.status = "faulty" ])
    /\ Goto(t, "read_status", None)
    /\ UNCHANGED <<current_index, thread_ghosts>>

\* Line 65, `return self.status`.
ReadStatus(t) ==
    /\ At(t, "read_status")
    /\ Goto(t, "switch", Health.status)
    /\ UNCHANGED <<keys, current_index, thread_ghosts>>

\* mark_key_failure, lines 193-197: the cursor moves on when the status that
\* mark_failure returned is "faulty"; the call returns that status.
Switch(t) ==
    /\ At(t, "switch")
    /\ current_index' = IF threads[t].read = "faulty"
                        THEN AdvanceIndex(current_index, Cardinality(DOMAIN keys))
                        ELSE current_index
    /\ last_call' = [ op |-> "mark_key_failure", key |-> SharedKey,
                      ret |-> threads[t].read ]
    /\ Goto(t, "idle", None)
    /\ UNCHANGED <<keys, key_list, run, failure_events, interrupted, since_success>>

\* mark_key_success, lines 206-209: the key is known, mark_success is entered.
EnterMarkKeySuccess(t) ==
    /\ At(t, "idle")
    /\ threads[t].calls < MaxThreadCalls
    /\ threads' = [ threads EXCEPT ![t] = [ pc    |-> "test_status",
                                            calls |-> @.calls + 1,
                                            read  |-> None ] ]
    /\ interrupted' = [ interrupted EXCEPT ![SharedKey] = TRUE ]
    /\ run' = <<>>
    /\ UNCHANGED <<keys, key_list, current_index, last_call, failure_events,
                   since_success>>

\* Lines 70-71, `if self.status == "invalid": return`.
TestStatus(t) ==
    /\ At(t, "test_status")
    /\ Goto(t, IF Health.status = "invalid" THEN "idle" ELSE "test_recovered", None)
    /\ last_call' = IF Health.status = "invalid"
                    THEN [ op |-> "mark_key_success", key |-> SharedKey, ret |-> None ]
                    ELSE last_call
    /\ since_success' = IF Health.status = "invalid" THEN since_success
                        ELSE [ since_success EXCEPT ![SharedKey] = 0 ]
    /\ UNCHANGED <<keys, key_list, current_index, run, failure_events, interrupted>>

\* Lines 73-77: the counter is read for the log message only.
TestRecovered(t) ==
    /\ At(t, "test_recovered")
    /\ Goto(t, "reset_consecutive", None)
    /\ UNCHANGED <<keys, current_index, thread_ghosts>>

\* Line 78, `self.consecutive_failures = 0`.
ResetConsecutive(t) ==
    /\ At(t, "reset_consecutive")
    /\ SetHealth([ Health EXCEPT !.consecutive_failures = 0 ])
    /\ Goto(t, "set_healthy", None)
    /\ UNCHANGED <<current_index, thread_ghosts>>

\* Line 79, `self.status = "healthy"`; mark_key_success returns.
SetHealthy(t) ==
    /\ At(t, "set_healthy")
    /\ SetHealth([ Health EXCEPT !.status = "healthy" ])
    /\ last_call' = [ op |-> "mark_key_success", key |-> SharedKey, ret |-> None ]
    /\ Goto(t, "idle", None)
    /\ UNCHANGED <<key_list, current_index, run, failure_events, interrupted,
                   since_success>>

\* What a step of a thread inside the manager leaves alone.
thread_frame == <<handler_vars, snapshot, constructed_from>>

\* The threads have not been started: the calls so far came one at a time.
SingleThreaded == \A t \in ThreadIds : threads[t] = IdleThread

InitThreads ==
    /\ NewManager(<<SharedKey, "k2">>)
    /\ config = None
    /\ NoRequest
    /\ snapshot = NoSnapshot
    /\ threads = [ t \in ThreadIds |-> IdleThread ]

NextThreads ==
    \/ /\ SingleThreaded
       /\ \E reason \in Reasons, now \in Timestamps :
              MarkKeyFailure(SharedKey, reason, now)
       /\ UNCHANGED <<handler_vars, caller_vars>>
    \/ /\ SingleThreaded
       /\ MarkKeySuccess(SharedKey)
       /\ UNCHANGED <<handler_vars, caller_vars>>
    \/ \E t \in ThreadIds : EnterMarkKeyFailure(t) /\ UNCHANGED thread_frame
    \/ \E t \in ThreadIds : ReadConsecutive(t) /\ UNCHANGED thread_frame
    \/ \E t \in ThreadIds : WriteConsecutive(t) /\ UNCHANGED thread_frame
    \/ \E t \in ThreadIds : ReadTotal(t) /\ UNCHANGED thread_frame
    \/ \E t \in ThreadIds : WriteTotal(t) /\ UNCHANGED thread_frame
    \/ \E t \in ThreadIds, reason \in Reasons, now \in Timestamps :
           Stamp(t, reason, now) /\ UNCHANGED thread_frame
    \/ \E t \in ThreadIds : TestTotal(t) /\ UNCHANGED thread_frame
    \/ \E t \in ThreadIds : SetInvalid(t) /\ UNCHANGED thread_frame
    \/ \E t \in ThreadIds : TestConsecutive(t) /\ UNCHANGED thread_frame
    \/ \E t \in ThreadIds : SetFaulty(t) /\ UNCHANGED thread_frame
    \/ \E t \in ThreadIds : ReadStatus(t) /\ UNCHANGED thread_frame
    \/ \E t \in ThreadIds : Switch(t) /\ UNCHANGED thread_frame
    \/ \E t \in ThreadIds : EnterMarkKeySuccess(t) /\ UNCHANGED thread_frame
    \/ \E t \in ThreadIds : TestStatus(t) /\ UNCHANGED thread_frame
    \/ \E t \in ThreadIds : TestRecovered(t) /\ UNCHANGED thread_frame
    \/ \E t \in ThreadIds : ResetConsecutive(t) /\ UNCHANGED thread_frame
    \/ \E t \in ThreadIds : SetHealthy(t) /\ UNCHANGED thread_frame

SpecThreads == InitThreads /\ [][NextThreads]_vars

\* ------------------------------------------------------- shared vocabulary

Pool == DOMAIN keys

StatusOf(k) == keys[k].status

HasStatus(s) == \E k \in Pool : StatusOf(k) = s

\* The last call was a get_next_key (on a non-empty pool it returned Returned).
JustGot == last_call.op = "get_next_key"
Returned == last_call.ret

\* ---------------------------------------------------------------------------
\* C1  get_next_key prefers healthy over faulty over invalid: on a non-empty
\*     pool it returns a healthy key whenever one exists, otherwise a faulty
\*     key whenever one exists, and an invalid key only when every key is
\*     invalid.  In pool [k1, k2], once k1 has recorded 10 failures every
\*     get_next_key returns k2 while k2 is healthy.
\* ---------------------------------------------------------------------------
PreferenceOrdering ==
    (JustGot /\ key_list # <<>>) =>
        /\ Returned \in Pool
        /\ HasStatus("healthy") => StatusOf(Returned) = "healthy"
        /\ (~HasStatus("healthy") /\ HasStatus("faulty")) => StatusOf(Returned) = "faulty"
        /\ StatusOf(Returned) = "invalid" => \A k \in Pool : StatusOf(k) = "invalid"
        /\ ( /\ key_list = <<"k1", "k2">>
             /\ failure_events["k1"] >= 10
             /\ StatusOf("k2") = "healthy" ) => Returned = "k2"

\* A pool holding a healthy, a faulty and an invalid key, just asked for a key.
PreferenceOrderingWitness ==
    /\ JustGot
    /\ HasStatus("healthy") /\ HasStatus("faulty") /\ HasStatus("invalid")
    /\ StatusOf(Returned) = "healthy"

\* ---------------------------------------------------------------------------
\* C2  The status of every key is determined by its two counters: invalid iff
\*     total_failures >= 10, faulty iff total_failures < 10 and
\*     consecutive_failures >= 5, healthy iff total_failures < 10 and
\*     consecutive_failures < 5.
\* ---------------------------------------------------------------------------
StatusFromCounters ==
    \A k \in Pool :
        LET h == keys[k] IN
        /\ h.status = "invalid" <=> h.total_failures >= 10
        /\ h.status = "faulty"  <=> (h.total_failures < 10 /\ h.consecutive_failures >= 5)
        /\ h.status = "healthy" <=> (h.total_failures < 10 /\ h.consecutive_failures < 5)

\* A key that went faulty again after a success had reset it.
StatusFromCountersWitness ==
    \E k \in Pool :
        /\ interrupted[k]
        /\ StatusOf(k) = "faulty"
        /\ keys[k].consecutive_failures < keys[k].total_failures

\* The step is a call mark_key_failure(k, ...) / mark_key_success(k).
FailureCallOn(k) ==
    last_call'.op = "mark_key_failure" /\ last_call'.key = k

SuccessCallOn(k) ==
    last_call'.op = "mark_key_success" /\ last_call'.key = k

\* The status a fresh key has after n failures in a row.
StatusAfterStreak(n) ==
    IF n >= 10 THEN "invalid" ELSE IF n >= 5 THEN "faulty" ELSE "healthy"

\* ---------------------------------------------------------------------------
\* C3  A fresh key that has only failed, n times, is healthy for n <= 4, faulty
\*     for 5 <= n <= 9 and invalid for n >= 10; and whatever successes are
\*     interleaved, a key turns invalid in exactly the step that records its
\*     10th failure.
\* ---------------------------------------------------------------------------
ThresholdTransitions ==
    /\ [](\A k \in Pool :
            ~interrupted[k] => StatusOf(k) = StatusAfterStreak(failure_events[k]))
    /\ [][\A k \in Pool :
            (StatusOf(k) # "invalid" /\ keys'[k].status = "invalid")
                <=> (FailureCallOn(k) /\ failure_events'[k] = 10)]_vars

\* A key whose 10th failure has just been recorded, with successes before it.
ThresholdTransitionsWitness ==
    \E k \in Pool :
        /\ last_call = [ op |-> "mark_key_failure", key |-> k, ret |-> "invalid" ]
        /\ failure_events[k] = 10
        /\ interrupted[k]
        /\ keys[k].consecutive_failures < 5

\* ---------------------------------------------------------------------------
\* C4  invalid is sticky: no call changes the status of an invalid key, and
\*     mark_key_success on an invalid key leaves its whole health record
\*     (counters and last-failure fields) as it was.
\* ---------------------------------------------------------------------------
InvalidIsSticky ==
    [][\A k \in Pool :
        StatusOf(k) = "invalid" =>
            /\ keys'[k].status = "invalid"
            /\ SuccessCallOn(k) => keys'[k] = keys[k]]_vars

\* mark_key_success has just been called on an invalid key.
InvalidIsStickyWitness ==
    \E k \in Pool :
        /\ last_call = [ op |-> "mark_key_success", key |-> k, ret |-> None ]
        /\ StatusOf(k) = "invalid"
        /\ keys[k].last_failed_reason \in Reasons
        /\ keys[k].consecutive_failures > 0

\* ---------------------------------------------------------------------------
\* C5  total_failures of a key equals the number of mark_key_failure calls
\*     made on it (also past the invalid threshold, and with successes in
\*     between), so it never decreases.
\* ---------------------------------------------------------------------------
TotalCountsFailures ==
    \A k \in Pool : keys[k].total_failures = failure_events[k]

\* A key that kept failing after it became invalid, with a success on record.
TotalCountsFailuresWitness ==
    \E k \in Pool :
        /\ failure_events[k] > 10
        /\ interrupted[k]
        /\ keys[k].consecutive_failures < keys[k].total_failures

\* ---------------------------------------------------------------------------
\* C6  mark_key_success on a key that is not invalid sets
\*     consecutive_failures to 0 and status to healthy, whatever they were,
\*     and leaves total_failures unchanged.
\* ---------------------------------------------------------------------------
SuccessResetsConsecutive ==
    [][\A k \in Pool :
        (SuccessCallOn(k) /\ StatusOf(k) # "invalid") =>
            /\ keys'[k].consecutive_failures = 0
            /\ keys'[k].status = "healthy"
            /\ keys'[k].total_failures = keys[k].total_failures]_vars

\* mark_key_success has just reset a key that had failed at least 5 times.
SuccessResetsConsecutiveWitness ==
    \E k \in Pool :
        /\ last_call = [ op |-> "mark_key_success", key |-> k, ret |-> None ]
        /\ StatusOf(k) = "healthy"
        /\ keys[k].consecutive_failures = 0
        /\ keys[k].total_failures \in 5..9

\* The key after k in configuration order, cyclically.
Successor(k) ==
    LET i == CHOOSE j \in 1..Len(key_list) : key_list[j] = k
    IN  key_list[(i % Len(key_list)) + 1]

\* The keys returned by calls j+1 .. j+m of the current run of get_next_key calls.
Returns(j, m) == { run[i] : i \in (j + 1)..(j + m) }

\* The preferred non-empty tier: the keys of the best status present.
PreferredTier ==
    IF HasStatus("healthy") THEN { k \in Pool : StatusOf(k) = "healthy" }
    ELSE IF HasStatus("faulty") THEN { k \in Pool : StatusOf(k) = "faulty" }
    ELSE Pool

\* ---------------------------------------------------------------------------
\* C7  In a pool of N keys that are all healthy, any N consecutive
\*     get_next_key calls with no health event in between return each key
\*     exactly once, from whatever cursor value, and consecutive calls follow
\*     the cyclic configuration order.
\* ---------------------------------------------------------------------------
RoundRobinAllHealthy ==
    (key_list # <<>> /\ \A k \in Pool : StatusOf(k) = "healthy") =>
        /\ Len(run) = Len(key_list) => Returns(0, Len(run)) = Pool
        /\ \A i \in 1..(Len(run) - 1) : run[i + 1] = Successor(run[i])

\* Three healthy keys, asked three times in a row starting from the second
\* key, after failures and successes have been recorded.
RoundRobinAllHealthyWitness ==
    /\ Len(key_list) = 3
    /\ \A k \in Pool : StatusOf(k) = "healthy"
    /\ run = <<"k2", "k3", "k1">>
    /\ \E k \in Pool : failure_events[k] >= 5

\* ---------------------------------------------------------------------------
\* C8  (as claimed) When the preferred tier has M members, any M consecutive
\*     get_next_key calls with no health event in between return each member
\*     of that tier exactly once.
\* ---------------------------------------------------------------------------
RoundRobinScopedToTier ==
    LET m == Cardinality(PreferredTier) IN
    (key_list # <<>>) =>
        \A j \in 0..(Len(run) - m) : Returns(j, m) = PreferredTier

\* ---------------------------------------------------------------------------
\* C9  (as claimed) When mark_key_failure(k, reason) has returned "faulty" and
\*     another usable key is in the pool, the very next get_next_key returns
\*     a key other than k.
\* ---------------------------------------------------------------------------
SwitchesAwayFromFaulty ==
    [][( /\ last_call.op = "mark_key_failure"
         /\ last_call.ret = "faulty"
         /\ last_call'.op = "get_next_key"
         /\ \E j \in Pool \ {last_call.key} : is_usable(keys[j]) )
       => last_call'.ret # last_call.key]_vars

KeyInUse == request.license_key

LastAnswer == observed.last_answer

NetworkAnswers == { Answer(e, 0, FALSE) : e \in {"Timeout", "ConnectionError"} }

RateLimitAnswer == Answer("response", 429, FALSE)

\* This step is an HTTP attempt of the current call answered from S.
Attempted(S) ==
    /\ observed'.attempts = observed.attempts + 1
    /\ observed'.last_answer \in S

\* The call is over, by an exception of the given class.
Raised(error) == request.pc = "raised" /\ request.raised = error

\* n health events, all failures.
AllFailures(n) == [ i \in 1..n |-> "failure" ]

\* -------------------------------------------------------------------- C11
\* C11: a 5xx response is retryable: an attempt answered 503 records one
\* failure on the key in use and, while attempts remain, the call goes on to
\* the next attempt (after a sleep) instead of raising.
ServerErrorIsRetried ==
    ( /\ request.pc # "idle"
      /\ LastAnswer = Answer("response", 503, FALSE)
      /\ observed.attempts < config.max_retries )
        => /\ request.pc = "loop"
           /\ observed.health # <<>>
           /\ observed.health[Len(observed.health)] = "failure"
           /\ observed.sleeps # <<>>

\* -------------------------------------------------------------------- C12
\* C12: every attempt that ends in Timeout or ConnectionError records exactly
\* one failure on the key in use, in that same step (before any retry), and on
\* no other key; a call whose attempts all failed this way has recorded one
\* failure per attempt, raises NetworkError exactly when max_retries attempts
\* were made, and has then raised total_failures of its key by max_retries.
NetworkFailureStep ==
    Attempted(NetworkAnswers) =>
        /\ failure_events' = [ failure_events EXCEPT ![KeyInUse] = @ + 1 ]
        /\ keys'[KeyInUse].total_failures = keys[KeyInUse].total_failures + 1
        /\ \A k \in Pool \ {KeyInUse} : keys'[k] = keys[k]
        /\ observed'.health = Append(observed.health, "failure")

NetworkFailuresOnly ==
    ( /\ request.pc \in {"loop", "raised"}
      /\ observed.attempts > 0
      /\ observed.answers \subseteq NetworkAnswers )
        => /\ observed.health = AllFailures(observed.attempts)
           /\ keys[KeyInUse].total_failures
                  = observed.total_before + observed.attempts
           /\ observed.keys_used = {KeyInUse}
           /\ (observed.attempts = config.max_retries <=> Raised("NetworkError"))
           /\ (observed.attempts < config.max_retries <=> request.pc = "loop")

NetworkFailuresRecorded ==
    []NetworkFailuresOnly /\ [][NetworkFailureStep]_vars

\* Three attempts, all network failures, on a key that had failed before.
NetworkFailuresRecordedWitness ==
    /\ Raised("NetworkError")
    /\ config.max_retries = MaxRetries
    /\ observed.answers = NetworkAnswers
    /\ observed.total_before > 0
    /\ keys[KeyInUse].total_failures = observed.total_before + MaxRetries

\* -------------------------------------------------------------------- C13
\* C13: an attempt answered 429 records neither a failure nor a success: the
\* step leaves every health record and the cursor as they were; a call whose
\* attempts were all answered 429 has recorded no health event, and it raises
\* RateLimitError exactly when max_retries attempts were made.
RateLimitStep ==
    Attempted({RateLimitAnswer}) =>
        /\ UNCHANGED <<keys, current_index, failure_events, interrupted>>
        /\ observed'.health = observed.health

RateLimitOnly ==
    ( /\ request.pc \in {"loop", "raised"}
      /\ observed.answers = {RateLimitAnswer} )
        => /\ observed.health = <<>>
           /\ keys[KeyInUse].total_failures = observed.total_before
           /\ (observed.attempts = config.max_retries <=> Raised("RateLimitError"))
           /\ (observed.attempts < config.max_retries <=> request.pc = "loop")

RateLimitRecordsNothing ==
    []RateLimitOnly /\ [][RateLimitStep]_vars

\* MaxRetries attempts, all answered 429, on a key with a failure history.
RateLimitRecordsNothingWitness ==
    /\ Raised("RateLimitError")
    /\ config.max_retries = MaxRetries
    /\ observed.attempts = MaxRetries
    /\ observed.answers = {RateLimitAnswer}
    /\ keys[KeyInUse].consecutive_failures > 0
    /\ keys[KeyInUse].total_failures = observed.total_before

\* -------------------------------------------------------------------- C14
\* C14: an attempt answered 401 or 403 ends the call with AuthenticationError
\* and one answered 404 ends it with DataError; that step records exactly one
\* failure, on the key in use, and makes no backoff sleep; and a call that has
\* raised makes no further HTTP attempt.
TerminalStatusStep ==
    /\ Attempted({ Answer("response", c, FALSE) : c \in {401, 403} })
           => request'.pc = "raised" /\ request'.raised = "AuthenticationError"
    /\ Attempted({ Answer("response", 404, FALSE) })
           => request'.pc = "raised" /\ request'.raised = "DataError"
    /\ Attempted({ Answer("response", c, FALSE) : c \in {401, 403, 404} })
           => /\ failure_events' = [ failure_events EXCEPT ![KeyInUse] = @ + 1 ]
              /\ keys'[KeyInUse].total_failures
                     = keys[KeyInUse].total_failures + 1
              /\ \A k \in Pool \ {KeyInUse} : keys'[k] = keys[k]
              /\ observed'.health = Append(observed.health, "failure")
              /\ observed'.sleeps = observed.sleeps
    /\ request.pc = "raised" => observed'.attempts = 0

ClientErrorsAreTerminal == [][TerminalStatusStep]_vars

\* A 403 on the second attempt of a call (after a 429 and its sleep).
ClientErrorsAreTerminalWitness ==
    /\ Raised("AuthenticationError")
    /\ LastAnswer = Answer("response", 403, FALSE)
    /\ observed.attempts = 2
    /\ observed.answers = {RateLimitAnswer, LastAnswer}
    /\ Len(observed.sleeps) = 1
    /\ observed.health = <<"failure">>
    /\ keys[KeyInUse].total_failures = observed.total_before + 1

\* -------------------------------------------------------------------- C15
\* C15: an attempt answered 2xx with a body that is not JSON ends the call
\* with DataError on that attempt, makes no sleep, and records nothing: every
\* health record is the same after the attempt as before it.
ParseFailureStep ==
    Attempted({ Answer("response", 200, FALSE) }) =>
        /\ request'.pc = "raised"
        /\ request'.raised = "DataError"
        /\ UNCHANGED <<keys, current_index, failure_events, interrupted>>
        /\ observed'.health = observed.health
        /\ observed'.sleeps = observed.sleeps

ParseFailureRecordsNothing == [][ParseFailureStep]_vars

\* A body that is not JSON on the attempt after a network failure: the one
\* failure recorded by the call is the network one.
ParseFailureRecordsNothingWitness ==
    /\ Raised("DataError")
    /\ LastAnswer = Answer("response", 200, FALSE)
    /\ observed.attempts = 2
    /\ observed.health = <<"failure">>
    /\ keys[KeyInUse].total_failures = observed.total_before + 1
    /\ keys[KeyInUse].last_failed_reason = NetworkReason("Timeout")

\* -------------------------------------------------------------------- C16
\* The call ran out of attempts: it raised after the loop test failed (a raise
\* from inside the loop leaves attempt below max_retries).
Exhausted == request.pc = "raised" /\ request.attempt >= config.max_retries

\* C16: a call that runs out of attempts raises RateLimitError if its last
\* attempt was classified 429 and NetworkError otherwise, for every
\* max_retries >= 0; it never raises the generic ByapiError.
ExhaustionIsLabelled ==
    Exhausted =>
        request.raised = IF LastAnswer = RateLimitAnswer THEN "RateLimitError"
                         ELSE "NetworkError"

\* -------------------------------------------------------------------- C17
\* C17: in every call get_license_key has been called exactly once, before
\* the first attempt, and every HTTP attempt of the call carried the key that
\* fetch returned, whatever the status of that key has become; the key of the
\* request changes only in the step that starts a new call.
OneKeyPerCallState ==
    request.pc # "idle" =>
        /\ observed.get_calls = 1
        /\ observed.keys_used \subseteq {KeyInUse}
        /\ (observed.attempts > 0 => observed.keys_used = {KeyInUse})

OneKeyPerCallStep ==
    /\ Attempted(HttpAnswers) =>
           /\ request'.license_key = request.license_key
           /\ observed'.get_calls = observed.get_calls
    /\ request'.license_key # request.license_key =>
           /\ calls_started' = calls_started + 1
           /\ observed'.attempts = 0

OneKeyPerCall == []OneKeyPerCallState /\ [][OneKeyPerCallStep]_vars

\* A call on a two-key pool whose key turned faulty during the call and
\* that made another attempt with it, while the other key was healthy.
OneKeyPerCallWitness ==
    /\ Cardinality(Pool) = 2
    /\ request.pc = "raised"
    /\ observed.attempts = MaxRetries
    /\ observed.total_before < ConsecutiveFailureLimit
    /\ keys[KeyInUse].consecutive_failures > ConsecutiveFailureLimit
    /\ StatusOf(KeyInUse) = "faulty"
    /\ observed.keys_used = {KeyInUse}
    /\ \E k \in Pool \ {KeyInUse} : StatusOf(k) = "healthy"

\* -------------------------------------------------------------------- C19
\* C19: the configured thresholds drive the state machine: with thresholds c
\* and t configured, a key that has only ever failed is faulty from its c-th
\* failure on and invalid from its t-th.
ConfiguredThresholdsDrive ==
    \A k \in Pool :
        ~interrupted[k] =>
            StatusOf(k) =
                IF failure_events[k] >= config.total_failure_threshold
                THEN "invalid"
                ELSE IF failure_events[k] >= config.consecutive_failure_threshold
                THEN "faulty"
                ELSE "healthy"

\* -------------------------------------------------------------------- C18
\* C18 as written: an empty pool is rejected at construction, so no manager
\* has an empty pool and no first get_next_key call fails for lack of keys.
EmptyPoolRejectedAtConstruction ==
    /\ key_list # <<>>
    /\ JustGot => Returned # ByapiError

\* C18: a KeyRotationManager built from an empty credential list is
\* constructed, with an empty pool and the cursor at 0; the error comes on
\* use: every get_next_key call on it raises ByapiError and changes nothing.
EmptyPoolFailsOnUse ==
    key_list = <<>> =>
        /\ Pool = {}
        /\ current_index = 0
        /\ JustGot => Returned = ByapiError

\* The first get_next_key call on a manager built from the empty list.
EmptyPoolFailsOnUseWitness ==
    /\ key_list = <<>>
    /\ JustGot
    /\ Returned = ByapiError

\* -------------------------------------------------------------------- C20
\* C20: consecutive_failures of every key equals the number of failure events
\* recorded on it since the most recent success event that arrived while the
\* key was not invalid (since creation if there is none).
ConsecutiveCountsSinceSuccess ==
    \A k \in Pool : keys[k].consecutive_failures = since_success[k]

\* The end of scenario A: pool [k1], five failures and a success recorded, the
\* last event a failure: consecutive 1, total 5, healthy.
ConsecutiveCountsSinceSuccessWitness ==
    /\ key_list = <<"k1">>
    /\ last_call.op = "mark_key_failure"
    /\ failure_events["k1"] = 5
    /\ interrupted["k1"]
    /\ since_success["k1"] = 1
    /\ keys["k1"].consecutive_failures = 1
    /\ keys["k1"].total_failures = 5
    /\ StatusOf("k1") = "healthy"

\* ------------------------------------------- vocabulary of the caller claims

\* The one-character string at position p of s.
CharAt(s, p) == SubSeq(s, p, p)

\* sub occurs in s.
Contains(s, sub) ==
    \E i \in 1..(Len(s) - Len(sub) + 1) : SubSeq(s, i, i + Len(sub) - 1) = sub

\* What a caller reads, after the step, from element i of the list it holds.
ValueAfter(i) ==
    IF snapshot'.items[i].live THEN keys'[snapshot'.items[i].of]
    ELSE snapshot'.items[i].copy

\* -------------------------------------------------------------------- C21
\* C21: for mask_keys True and False, the list get_health_status returns has
\* one record per pool key in configuration order; the records of a list a
\* caller holds keep their values when an attempt records a failure or a
\* success afterwards; and assigning to a returned record leaves the
\* manager's health records as they were.
SnapshotStep ==
    /\ \A mask_keys \in BOOLEAN :
           GetHealthStatus(mask_keys) =>
               /\ Len(snapshot'.items) = Len(key_list)
               /\ \A i \in 1..Len(key_list) : snapshot'.items[i].of = key_list[i]
    /\ Attempted(ClientAnswers) =>
           \A i \in 1..Len(snapshot.items) :
               ValueAfter(i) = Value(snapshot.items[i])
    /\ (\E i \in 1..Len(snapshot.items) : ModifyReturned(i)) => keys' = keys

SnapshotIsImmutable == [][SnapshotStep]_vars

\* -------------------------------------------------------------------- C22
\* C22: every record of a list returned with mask_keys=True reports its key
\* as the first 8 characters followed by "..." when the key is longer than 8
\* characters and as "***" otherwise; the reported string has at most 11
\* characters, none of them a character of the key past position 8; and the
\* reported counters and status are those of the live record.
MaskedStep ==
    GetHealthStatus(TRUE) =>
        \A i \in 1..Len(key_list) :
            LET k == key_list[i]
                r == snapshot'.items[i].copy
            IN  /\ r.key = IF Len(k) > 8 THEN SubSeq(k, 1, 8) \o "..." ELSE "***"
                /\ Len(r.key) <= 11
                /\ \A p \in 9..Len(k), q \in 1..Len(r.key) :
                       CharAt(r.key, q) # CharAt(k, p)
                /\ r.consecutive_failures = keys[k].consecutive_failures
                /\ r.total_failures = keys[k].total_failures
                /\ r.status = keys[k].status

MaskedSnapshot == [][MaskedStep]_vars

\* A masked list over a key of 8 and a key of 9 characters, taken after the
\* second had failed.
MaskedSnapshotWitness ==
    /\ snapshot.mask_keys
    /\ key_list = <<"abcdefgh", "abcdefghi">>
    /\ Len(snapshot.taken) = 2
    /\ snapshot.taken[1].key = "***"
    /\ snapshot.taken[2].key = "abcdefgh..."
    /\ snapshot.taken[2].total_failures > 0
    /\ snapshot.taken[2].total_failures = keys["abcdefghi"].total_failures

\* -------------------------------------------------------------------- C23
\* C23: the license_key_used of a returned call is the masked form
\* get_health_status(mask_keys=True) reports for that key, and the complete
\* key does not occur in it, whatever the length of the key.
ResultKeyIsMasked ==
    request.pc = "returned" =>
        /\ request.license_key_used = mask_key(request.license_key)
        /\ ~Contains(request.license_key_used, request.license_key)

\* -------------------------------------------------------------------- C24
\* C24: a mark_key_failure or mark_key_success call with a key that is not in
\* the pool does not raise (mark_key_failure returns "unknown") and leaves
\* every health record, the order list and the cursor as they were.
UnknownKeyStep ==
    last_call'.key = UnknownKey =>
        /\ last_call'.op \in {"mark_key_failure", "mark_key_success"}
        /\ last_call'.ret = IF last_call'.op = "mark_key_failure"
                            THEN "unknown" ELSE None
        /\ UNCHANGED <<keys, key_list, current_index>>

UnknownKeyIsNoOp == [][UnknownKeyStep]_vars

\* A failure reported for the unknown key on a two-key pool that has a
\* faulty key and a cursor off its initial position.
UnknownKeyIsNoOpWitness ==
    /\ last_call = [ op |-> "mark_key_failure", key |-> UnknownKey, ret |-> "unknown" ]
    /\ Cardinality(Pool) = 2
    /\ HasStatus("faulty")
    /\ current_index = 1

\* -------------------------------------------------------------------- C25
\* t is s without its leading and trailing whitespace: s is whitespace, t,
\* whitespace, and t neither starts nor ends with whitespace.
IsTrimOf(t, s) ==
    \E i \in 1..(Len(s) + 1), j \in 0..Len(s) :
        /\ j >= i - 1
        /\ t = IF j < i THEN "" ELSE SubSeq(s, i, j)
        /\ \A p \in (1..(i - 1)) \cup ((j + 1)..Len(s)) : CharAt(s, p) \in Whitespace
        /\ j >= i => CharAt(s, i) \notin Whitespace /\ CharAt(s, j) \notin Whitespace

\* The distinct non-empty trimmed strings of the constructor's input.
TrimmedEntries ==
    LET Pieces(s) == { SubSeq(s, i, j) : i \in 1..Len(s), j \in 1..Len(s) }
    IN  { t \in UNION { Pieces(constructed_from[n]) : n \in 1..Len(constructed_from) } :
            t # "" /\ \E n \in 1..Len(constructed_from) :
                          IsTrimOf(t, constructed_from[n]) }

\* The first position of the input whose trimmed string is k.
FirstOccurrence(k) ==
    CHOOSE n \in 1..Len(constructed_from) :
        /\ IsTrimOf(k, constructed_from[n])
        /\ \A m \in 1..(n - 1) : ~IsTrimOf(k, constructed_from[m])

\* C25: the pool holds exactly one health record and one rotation slot per
\* distinct non-empty trimmed string of the input, in order of first
\* occurrence, each record healthy with both counters 0 (no health event is
\* made in this specification).
PoolIsDistinctTrimmed ==
    /\ Range(key_list) = TrimmedEntries
    /\ Len(key_list) = Cardinality(TrimmedEntries)
    /\ DOMAIN keys = TrimmedEntries
    /\ \A k \in DOMAIN keys :
           /\ keys[k].key = k
           /\ keys[k].status = "healthy"
           /\ keys[k].consecutive_failures = 0
           /\ keys[k].total_failures = 0
    /\ \A a, b \in 1..Len(key_list) :
           a < b => FirstOccurrence(key_list[a]) < FirstOccurrence(key_list[b])

\* A padded k2, a padded k1 and k2 again: two slots, k2 first.
PoolIsDistinctTrimmedWitness ==
    /\ constructed_from = <<"\tk2", "k1 ", "k2">>
    /\ key_list = <<"k2", "k1">>
    /\ DOMAIN keys = {"k1", "k2"}
    /\ last_call.op = "get_next_key"

\* -------------------------------------------------------------------- C26
\* min(retry_max_delay, retry_base_delay * 2^(a-1)), written out.
CappedDoubling(a) ==
    IF config.retry_base_delay * 2^(a - 1) < config.retry_max_delay
    THEN config.retry_base_delay * 2^(a - 1)
    ELSE config.retry_max_delay

\* C26: for every attempt number a >= 1 the pre-jitter delay of
\* _wait_exponential is min(retry_max_delay, retry_base_delay * 2^(a-1)): it
\* never exceeds the cap and never decreases with a; and the i-th sleep of a
\* call is the delay for a = i, so the sleep after the first failed attempt
\* uses a = 1.
BackoffFormula ==
    /\ \A a \in 1..MaxAttempt :
           /\ wait_exponential(a, config) = CappedDoubling(a)
           /\ wait_exponential(a, config) <= config.retry_max_delay
           /\ wait_exponential(a, config) <= wait_exponential(a + 1, config)
    /\ \A i \in 1..Len(observed.sleeps) :
           observed.sleeps[i] = CappedDoubling(i)

\* Two sleeps of one call: the base delay, then the cap.
BackoffFormulaWitness ==
    /\ config.retry_base_delay = 100
    /\ config.retry_max_delay = 150
    /\ observed.sleeps = <<100, 150>>
    /\ observed.attempts = 3

\* -------------------------------------------------------------------- C27
\* The call is over: it returned a result or raised an error.
CallOver == request.pc \in {"returned", "raised"}

\* The most sleeps a call with this max_retries makes.
SleepBudget ==
    IF config.max_retries > 0 THEN config.max_retries - 1 ELSE 0

CallIsBounded ==
    request.pc # "idle" =>
        /\ observed.attempts <= config.max_retries
        /\ Len(observed.sleeps) <= SleepBudget
        /\ Len(observed.sleeps) <= observed.attempts
        /\ (CallOver /\ observed.attempts > 0)
               => Len(observed.sleeps) < observed.attempts
        /\ request.pc = "returned" <=> request.raised = None /\ CallOver

\* C27: a call makes at most max_retries HTTP attempts and at most
\* max_retries - 1 sleeps (none when no attempt is allowed), never sleeps
\* after its last attempt, and - every attempt completing - ends by returning
\* a result or by raising an error.
CallTerminates ==
    /\ []CallIsBounded
    /\ (request.pc = "loop") ~> CallOver

\* A call that ended after using every attempt and every sleep it had.
CallTerminatesWitness ==
    /\ CallOver
    /\ config.max_retries = MaxRetries
    /\ observed.attempts = MaxRetries
    /\ Len(observed.sleeps) = MaxRetries - 1

\* ------------------------------------------------------------------ C28

\* Calls that have selected the rejected key: each one so far recorded one
\* failure on it, but for the call still in its loop.
RejectedSelections ==
    failure_events[RejectedKey]
        + (IF request.pc = "loop" /\ KeyInUse = RejectedKey THEN 1 ELSE 0)

\* A call on the rejected key ends at its first attempt, by AuthenticationError
\* and with exactly one failure recorded on that key.
RejectedCallStep ==
    (request.pc = "loop" /\ KeyInUse = RejectedKey) =>
        /\ request'.pc = "raised"
        /\ request'.raised = "AuthenticationError"
        /\ observed'.attempts = 1
        /\ failure_events'[RejectedKey] = failure_events[RejectedKey] + 1

\* C28: in a pool of two or more initially healthy keys, one of which the
\* server always rejects with 401 or 403 while the others always succeed,
\* sequential calls select the rejected key at most five times, and once its
\* fifth failure is recorded every later call selects another key.
BoundedFailover ==
    /\ [](RejectedSelections <= ConsecutiveFailureLimit)
    /\ [](failure_events[RejectedKey] >= ConsecutiveFailureLimit =>
             /\ StatusOf(RejectedKey) = "faulty"
             /\ (request.pc # "idle" /\ observed.attempts = 0) => KeyInUse # RejectedKey
             /\ (CallOver /\ KeyInUse = RejectedKey)
                    => /\ last_call.op = "mark_key_failure"
                       /\ keys[RejectedKey].total_failures = ConsecutiveFailureLimit)
    /\ [][RejectedCallStep]_vars

\* The rejected key of a three-key pool has failed five times and the client
\* has since completed every call it was allowed on the other keys.
BoundedFailoverWitness ==
    /\ Cardinality(Pool) = 3
    /\ failure_events[RejectedKey] = ConsecutiveFailureLimit
    /\ StatusOf(RejectedKey) = "faulty"
    /\ calls_started = MaxFailoverCalls
    /\ request.pc = "returned"
    /\ KeyInUse # RejectedKey

\* ------------------------------------------------------------------ C29

\* C29: no member of the preferred tier is starved: N consecutive
\* get_next_key calls with no health event in between, N the pool size,
\* return every key of the preferred non-empty tier at least once.
NoStarvation ==
    (key_list # <<>> /\ Len(run) = Len(key_list)) =>
        PreferredTier \subseteq Returns(0, Len(run))

\* Three calls in a row on a pool of three keys whose preferred tier is two
\* healthy keys next to an invalid one: both were returned, one of them twice.
NoStarvationWitness ==
    /\ Len(key_list) = 3
    /\ Len(run) = 3
    /\ HasStatus("invalid")
    /\ Cardinality(PreferredTier) = 2
    /\ Returns(0, 3) = PreferredTier
    /\ run[1] = run[3]

\* ------------------------------------------------------------------ C30

\* No thread is inside a manager call.
Quiescent == \A t \in ThreadIds : threads[t].pc = "idle"

\* C30 (as claimed): consecutive_failures <= total_failures holds also when
\* two threads' mark_key_failure and mark_key_success calls on one key
\* interleave at the reads and writes of the two counters. Stated for the
\* states in which every call has returned: inside mark_failure, between the
\* two increments, the order is broken for as long as the call lasts.
CountersOrderedUnderThreads ==
    Quiescent =>
        \A k \in Pool : keys[k].consecutive_failures <= keys[k].total_failures
====
